---- MODULE Spec2Model ----
(***************************************************************************)
(* Model of SimPEG/NewSurvey.py (BaseRx, BaseTimeRx, BaseSrc, BaseSurvey)  *)
(* and of the Volume objective of SimPEG/Examples/SEIS_VolumeRegulari-     *)
(* zation.py.                                                              *)
(*                                                                         *)
(* Three specifications share the module:                                 *)
(*   SpecSurvey  one survey, its sources and their receivers: list         *)
(*               assignment (the validators), index lookup, nD, dpred      *)
(*   SpecProj    the receivers' projection cache _Ps and getP              *)
(*   SpecVol     the Volume objective: __call__, deriv, deriv2             *)
(*                                                                         *)
(* Objects are numbered.  0 is an object that has no uid attribute,        *)
(* 1..NumSrc are the sources, NumSrc+1..NumSrc+NumRx the receivers; the    *)
(* last receiver is a BaseTimeRx, the others are BaseRx.  The uid of a     *)
(* source or receiver is its properties.Uuid (a fresh uuid4 for every      *)
(* instance), modelled by the object's number.                             *)
(***************************************************************************)
EXTENDS Integers, Sequences, FiniteSets, TLC

\* ------------------------------------------------------------- bounds
NumSrc == 2
NumRx == 2
MaxRows == 2
MaxTimes == 2
MaxQuery == 2

\* Python's None, as the value of a missing uid and of dict.get's default
None == -1

Stranger == 0
Sources == 1..NumSrc
Receivers == (NumSrc + 1)..(NumSrc + NumRx)

\* class of a receiver: BaseTimeRx(BaseRx) or plain BaseRx
IsTimeRx(r) == r = NumSrc + NumRx

\* getattr(obj, 'uid', None)
Uid(o) == IF o \in Sources \cup Receivers THEN o ELSE None

VARIABLES
    srcList,          \* BaseSurvey.srcList (<<>> while never assigned)
    hasSourceOrder,   \* the attribute BaseSurvey._sourceOrder exists
    sourceOrder,      \* BaseSurvey._sourceOrder, a dict as a set of <<uid, index>>
    rxList,           \* BaseSrc.rxList of every source (default [])
    hasRxOrder,       \* the attribute BaseSrc._rxOrder exists, per source
    rxOrder,          \* BaseSrc._rxOrder per source
    locs,             \* number of rows of BaseRx.locs, per receiver
    times,            \* len(BaseTimeRx.times), per receiver (0 for a BaseRx)
    storeProjections, \* BaseRx.storeProjections, per receiver
    sharedPs,         \* the receivers hold one and the same default dict _Ps
    Ps,               \* the dicts _Ps, each a set of <<key, matrix>>
    constructed,      \* history: per receiver, key -> number of matrices built
                      \* for the key while storeProjections was true
    vol,              \* mesh.vol of the Volume objective's mesh
    knownVolume,      \* Volume.knownVolume
    model,            \* the model vector m handed to the Volume objective
    ret               \* the last call and its outcome

listVars == <<srcList, hasSourceOrder, sourceOrder, rxList, hasRxOrder, rxOrder>>
shapeVars == <<locs, times>>
projVars == <<storeProjections, sharedPs, Ps, constructed>>
volVars == <<vol, knownVolume, model>>
vars == <<listVars, shapeVars, projVars, volVars, ret>>

\* ------------------------------------------------------------- helpers
Range(s) == {s[i] : i \in 1..Len(s)}

SeqsUpTo(U, n) == UNION {[1..k -> U] : k \in 0..n}

RECURSIVE SumSeq(_)
\* numpy: np.array([...]).sum()
SumSeq(s) == IF s = <<>> THEN 0 ELSE Head(s) + SumSeq(Tail(s))

\* dict.get(key, default) on a dict held as a set of <<key, value>> pairs
DictGet(d, k, default) ==
    IF \E p \in d : p[1] = k
    THEN (CHOOSE p \in d : p[1] = k)[2]
    ELSE default

\* dict.setdefault(key, value): the first value stored under a key stays
DictSetDefault(d, k, v) ==
    IF \E p \in d : p[1] = k THEN d ELSE d \cup {<<k, v>>}

\* the assert of both validators: len(set(value)) == len(value)
UniqueUnchecked(value) == TRUE

Unique(value) == Cardinality(Range(value)) = Len(value)

\* enumerate(value): Python counts from 0
EnumerateFromOne(value) == [i \in 1..Len(value) |-> <<i, value[i]>>]

Enumerate(value) == [i \in 1..Len(value) |-> <<i - 1, value[i]>>]

RECURSIVE SetDefaultAll(_, _)
\* [order.setdefault(x.uid, ii) for ii, x in enumerate(value)], on a fresh dict
SetDefaultAll(d, pairs) ==
    IF pairs = <<>> THEN d
    ELSE SetDefaultAll(DictSetDefault(d, Uid(Head(pairs)[2]), Head(pairs)[1]),
                       Tail(pairs))

BuildOrder(value) == SetDefaultAll({}, Enumerate(value))

\* a query: one object (isList = FALSE, items = <<obj>>) or a list of objects
Queries(U) ==
    {[isList |-> FALSE, items |-> <<o>>] : o \in U}
        \cup {[isList |-> TRUE, items |-> s] : s \in SeqsUpTo(U, MaxQuery)}

EmptyQ == [isList |-> TRUE, items |-> <<>>]

\* if type(x) is not list: x = [x]
AsList(q) == IF q.isList THEN q.items ELSE <<q.items[1]>>

\* getSourceIndex / getReceiverIndex: the two methods have the same body.
\* The uid loop runs first; the order dict is read only inside the map, so
\* a missing dict attribute shows (AttributeError) only for a non-empty query.
GetIndex(hasOrder, order, q) ==
    LET items == AsList(q)
        inds == [i \in 1..Len(items) |-> DictGet(order, Uid(items[i]), None)]
    IN  IF \E i \in 1..Len(items) : Uid(items[i]) = None
        THEN [kind |-> "KeyError", val |-> <<>>]
        ELSE IF items # <<>> /\ ~hasOrder
        THEN [kind |-> "AttributeError", val |-> <<>>]
        ELSE IF \E i \in 1..Len(inds) : inds[i] = None
        THEN [kind |-> "KeyError", val |-> <<>>]
        ELSE [kind |-> "ok", val |-> inds]

\* BaseRx.nD / BaseTimeRx.nD
RxNDRowsOnly(r) == locs[r]

RxND(r) == IF IsTimeRx(r) THEN locs[r] * times[r] ELSE locs[r]

\* BaseSrc.vnD, BaseSrc.nD
SrcVnD(s) == [i \in 1..Len(rxList[s]) |-> RxND(rxList[s][i])]
SrcND(s) == SumSeq(SrcVnD(s))

\* BaseSurvey.vnD, BaseSurvey.nD, BaseSurvey.nSrc
SurveyVnD == [i \in 1..Len(srcList) |-> SrcND(srcList[i])]
SurveyND == SumSeq(SurveyVnD)
nSrc == Len(srcList)

\* BaseSurvey.dpred(m, f): raises unconditionally
dpredWhenFieldsGiven(m, f) == IF f = None THEN "Exception" ELSE "ok"

dpred(m, f) == "Exception"

\* ------------------------------------------------------------- projections
\* meshes handed to getP, time meshes handed to BaseTimeRx.getP
Meshes == {"M1", "M2"}
TimeMeshes == {"T1"}

\* the mesh the calls of BaseTimeRx.getP are made with
TimeRxMeshes == {"M1"}

\* choices of projGLoc; getP's projGLoc=None is NoArg
GLocChoices == {"CC", "F", "E"}
NoArg == "None"

\* the projGLoc arguments the calls of BaseRx.getP are made with
GLocArgs == {NoArg, "CC", "F"}

\* the properties' defaults, which the model keeps
projGLoc(r) == "CC"
projTLoc(r) == "N"

\* mesh.getInterpolationMat(points, tag), a function of its three inputs
InterpolationMat(mesh, points, tag) == [mesh |-> mesh, points |-> points, tag |-> tag]

\* sp.kron(Pt, Ps)
Kron(Pt, Ps_) == [pt |-> Pt, ps |-> Ps_]

\* the dict object behind r._Ps: the class-level default={} is one object;
\* sharedPs tells whether the instances hold that object or a copy each
PsId(r) == IF sharedPs THEN NumSrc + 1 ELSE r

DictHas(d, k) == \E p \in d : p[1] = k

\* d[k] = v
DictPut(d, k, v) == {p \in d : p[1] # k} \cup {<<k, v>>}

\* BaseTimeRx.getSpatialP, BaseTimeRx.getTimeP
getSpatialP(r, mesh) == InterpolationMat(mesh, locs[r], projGLoc(r))
getTimeP(r, timeMesh) == InterpolationMat(timeMesh, times[r], projTLoc(r))

\* the cache key of a call: (mesh, projGLoc) with the default filled in for
\* BaseRx.getP, (mesh, timeMesh) for BaseTimeRx.getP
GetPKey(r, mesh, arg) ==
    IF IsTimeRx(r) THEN <<mesh, arg>>
    ELSE <<mesh, IF arg = NoArg THEN projGLoc(r) ELSE arg>>

\* the matrix getP builds on a miss
BuildP(r, mesh, arg) ==
    IF IsTimeRx(r)
    THEN Kron(getTimeP(r, arg), getSpatialP(r, mesh))
    ELSE InterpolationMat(mesh, locs[r], GetPKey(r, mesh, arg)[2])

\* if self.storeProjections: self._Ps[key] = P
NeverStore(r) == FALSE

ShouldStore(r) == storeProjections[r]

MaxBuilds == 2

PRet(r, key, mat, built) ==
    [op |-> "getP", tgt |-> r, key |-> key, mat |-> mat, built |-> built]

\* ------------------------------------------------------------- Volume
NumCells == 2
MaxVol == 2
MaxKnownVolume == 2
MaxModel == 1

Cells == 1..NumCells
Models == [Cells -> (0 - 1)..MaxModel]
Directions == [Cells -> (0 - 1)..1]

RECURSIVE DotUpTo(_, _, _)
DotUpTo(a, b, n) == IF n = 0 THEN 0 ELSE a[n] * b[n] + DotUpTo(a, b, n - 1)

\* np.inner(a, b)
Inner(a, b) == DotUpTo(a, b, Len(a))

\* Volume.estVol
estVol(m) == Inner(vol, m)

\* Volume.__call__, 0.5*(estVol(m) - knownVolume)**2, in units of one half
CallHalves(m) == (estVol(m) - knownVolume) * (estVol(m) - knownVolume)

\* Volume.deriv; derivNoTarget is the variant the source keeps as a comment
derivNoTarget(m) == [i \in Cells |-> vol[i] * Inner(vol, m)]

deriv(m) == [i \in Cells |-> vol[i] * (knownVolume - Inner(vol, m))]

\* Volume.deriv2 with a direction v
deriv2OfModel(m, v) == [i \in Cells |-> vol[i] * Inner(vol, m)]

deriv2(m, v) == [i \in Cells |-> vol[i] * Inner(vol, v)]

\* Volume.deriv2 without a direction: np.outer(vol, vol), row by row
deriv2Dense(m) == [i \in Cells |-> [j \in Cells |-> vol[i] * vol[j]]]

VRet(op, v, val, H) == [op |-> op, v |-> v, val |-> val, H |-> H]

Ret(op, tgt, q, kind, val) ==
    [op |-> op, tgt |-> tgt, q |-> q, kind |-> kind, val |-> val]

\* the parts a specification leaves alone keep their state after construction
ListIdle ==
    /\ srcList = <<>>
    /\ hasSourceOrder = FALSE
    /\ sourceOrder = {}
    /\ rxList = [s \in Sources |-> <<>>]
    /\ hasRxOrder = [s \in Sources |-> FALSE]
    /\ rxOrder = [s \in Sources |-> {}]

ShapeInit ==
    /\ locs \in [Receivers -> 1..MaxRows]
    /\ times \in [Receivers -> 0..MaxTimes]
    /\ \A r \in Receivers : (times[r] = 0) <=> ~IsTimeRx(r)

ProjIdle ==
    /\ storeProjections = [r \in Receivers |-> TRUE]
    /\ sharedPs = TRUE
    /\ Ps = [c \in Receivers |-> {}]
    /\ constructed = [r \in Receivers |-> {}]

VolIdle ==
    /\ vol = <<>>
    /\ knownVolume = 0
    /\ model = <<>>

\* ------------------------------------------------------------- survey
InitSurvey ==
    /\ ListIdle
    /\ ShapeInit
    /\ ret = Ret("init", Stranger, EmptyQ, "ok", <<>>)
    /\ ProjIdle
    /\ VolIdle

\* survey.srcList = value, with _srcList_validator run on the change
SetSrcList(value) ==
    /\ IF Unique(value)
       THEN /\ srcList' = value
            /\ sourceOrder' = BuildOrder(value)
            /\ hasSourceOrder' = TRUE
            /\ ret' = Ret("setSrcList", Stranger, [isList |-> TRUE, items |-> value],
                          "ok", <<>>)
       ELSE /\ UNCHANGED <<srcList, sourceOrder, hasSourceOrder>>
            /\ ret' = Ret("setSrcList", Stranger, [isList |-> TRUE, items |-> value],
                          "AssertionError", <<>>)
    /\ UNCHANGED <<rxList, hasRxOrder, rxOrder, shapeVars, projVars, volVars>>

\* src.rxList = value, with _rxList_validator run on the change
SetRxList(s, value) ==
    /\ IF Unique(value)
       THEN /\ rxList' = [rxList EXCEPT ![s] = value]
            /\ rxOrder' = [rxOrder EXCEPT ![s] = BuildOrder(value)]
            /\ hasRxOrder' = [hasRxOrder EXCEPT ![s] = TRUE]
            /\ ret' = Ret("setRxList", s, [isList |-> TRUE, items |-> value],
                          "ok", <<>>)
       ELSE /\ UNCHANGED <<rxList, rxOrder, hasRxOrder>>
            /\ ret' = Ret("setRxList", s, [isList |-> TRUE, items |-> value],
                          "AssertionError", <<>>)
    /\ UNCHANGED <<srcList, hasSourceOrder, sourceOrder, shapeVars, projVars, volVars>>

getSourceIndex(q) ==
    /\ LET r == GetIndex(hasSourceOrder, sourceOrder, q)
       IN  ret' = Ret("getSourceIndex", Stranger, q, r.kind, r.val)
    /\ UNCHANGED <<listVars, shapeVars, projVars, volVars>>

getReceiverIndex(s, q) ==
    /\ LET r == GetIndex(hasRxOrder[s], rxOrder[s], q)
       IN  ret' = Ret("getReceiverIndex", s, q, r.kind, r.val)
    /\ UNCHANGED <<listVars, shapeVars, projVars, volVars>>

\* rx.locs = an array of n rows
SetLocs(r, n) ==
    /\ locs' = [locs EXCEPT ![r] = n]
    /\ ret' = Ret("setLocs", r, EmptyQ, "ok", <<>>)
    /\ UNCHANGED <<listVars, times, projVars, volVars>>

\* rx.times = an array of n samples (BaseTimeRx only)
SetTimes(r, n) ==
    /\ IsTimeRx(r)
    /\ times' = [times EXCEPT ![r] = n]
    /\ ret' = Ret("setTimes", r, EmptyQ, "ok", <<>>)
    /\ UNCHANGED <<listVars, locs, projVars, volVars>>

ReadRxND(r) ==
    /\ ret' = Ret("rx.nD", r, EmptyQ, "ok", <<RxND(r)>>)
    /\ UNCHANGED <<listVars, shapeVars, projVars, volVars>>

ReadSrcND(s) ==
    /\ ret' = Ret("src.nD", s, EmptyQ, "ok", <<SrcND(s)>>)
    /\ UNCHANGED <<listVars, shapeVars, projVars, volVars>>

\* read once a source list has been assigned
ReadSurveyND ==
    /\ hasSourceOrder
    /\ ret' = Ret("survey.nD", Stranger, EmptyQ, "ok", <<SurveyND>>)
    /\ UNCHANGED <<listVars, shapeVars, projVars, volVars>>

\* survey.dpred(m, f): m a model (by number), f None or a fields object
CallDpred(m, f) ==
    /\ ret' = Ret("dpred", Stranger, [isList |-> FALSE, items |-> <<m, f>>],
                  dpred(m, f), <<>>)
    /\ UNCHANGED <<listVars, shapeVars, projVars, volVars>>

NextSurvey ==
    \/ \E value \in SeqsUpTo(Sources, NumSrc) : SetSrcList(value)
    \/ \E s \in Sources, value \in SeqsUpTo(Receivers, NumRx) : SetRxList(s, value)
    \/ \E q \in Queries(Sources \cup {Stranger}) : getSourceIndex(q)
    \/ \E s \in Sources, q \in Queries(Receivers \cup {Stranger}) : getReceiverIndex(s, q)
    \/ \E r \in Receivers, n \in 1..MaxRows : SetLocs(r, n)
    \/ \E r \in Receivers, n \in 1..MaxTimes : SetTimes(r, n)
    \/ \E r \in Receivers : ReadRxND(r)
    \/ \E s \in Sources : ReadSrcND(s)
    \/ ReadSurveyND
    \/ \E m \in {0, 1}, f \in {None, 1} : CallDpred(m, f)

SpecSurvey == InitSurvey /\ [][NextSurvey]_vars

\* ------------------------------------------------------------- getP
InitProj ==
    /\ ListIdle
    /\ ShapeInit
    /\ storeProjections = [r \in Receivers |-> TRUE]
    /\ sharedPs \in BOOLEAN
    /\ Ps = [c \in Receivers |-> {}]
    /\ constructed = [r \in Receivers |-> {}]
    /\ VolIdle
    /\ ret = Ret("init", Stranger, EmptyQ, "ok", <<>>)

\* the common body of the two getP methods: return the stored matrix on a
\* hit; on a miss build P, store it if storeProjections, and return it
GetPStep(r, key, P) ==
    LET cache == Ps[PsId(r)]
        n == DictGet(constructed[r], key, 0)
    IN  /\ IF DictHas(cache, key)
           THEN /\ ret' = PRet(r, key, DictGet(cache, key, None), FALSE)
                /\ UNCHANGED <<Ps, constructed>>
           ELSE /\ storeProjections[r] => n < MaxBuilds
                /\ Ps' = IF ShouldStore(r)
                         THEN [Ps EXCEPT ![PsId(r)] = DictPut(cache, key, P)]
                         ELSE Ps
                /\ constructed' =
                     IF storeProjections[r]
                     THEN [constructed EXCEPT ![r] = DictPut(@, key, n + 1)]
                     ELSE constructed
                /\ ret' = PRet(r, key, P, TRUE)
        /\ UNCHANGED <<listVars, shapeVars, storeProjections, sharedPs, volVars>>

\* BaseRx.getP(mesh, projGLoc=None)
getP(r, mesh, arg) ==
    /\ ~IsTimeRx(r)
    /\ GetPStep(r, GetPKey(r, mesh, arg), BuildP(r, mesh, arg))

\* BaseTimeRx.getP(mesh, timeMesh)
getPTime(r, mesh, timeMesh) ==
    /\ IsTimeRx(r)
    /\ GetPStep(r, GetPKey(r, mesh, timeMesh), BuildP(r, mesh, timeMesh))

\* rx.storeProjections = b
SetStoreProjections(r, b) ==
    /\ storeProjections' = [storeProjections EXCEPT ![r] = b]
    /\ ret' = Ret("setStoreProjections", r, EmptyQ, "ok", <<>>)
    /\ UNCHANGED <<listVars, shapeVars, sharedPs, Ps, constructed, volVars>>

NextProj ==
    \/ \E r \in Receivers, mesh \in Meshes, arg \in GLocArgs : getP(r, mesh, arg)
    \/ \E r \in Receivers, mesh \in TimeRxMeshes, timeMesh \in TimeMeshes :
          getPTime(r, mesh, timeMesh)
    \/ \E r \in Receivers, b \in BOOLEAN : SetStoreProjections(r, b)
    \/ \E r \in Receivers, n \in 1..MaxRows : SetLocs(r, n)
    \/ \E r \in Receivers, n \in 1..MaxTimes : SetTimes(r, n)

SpecProj == InitProj /\ [][NextProj]_vars

\* ------------------------------------------------------------- Volume calls
InitVol ==
    /\ ListIdle
    /\ locs = [r \in Receivers |-> 1]
    /\ times = [r \in Receivers |-> IF IsTimeRx(r) THEN 1 ELSE 0]
    /\ ProjIdle
    /\ vol \in [Cells -> 1..MaxVol]
    /\ knownVolume \in 0..MaxKnownVolume
    /\ model \in Models
    /\ ret = VRet("init", <<>>, <<>>, <<>>)

CallVolume ==
    /\ ret' = VRet("call", <<>>, <<CallHalves(model)>>, <<>>)
    /\ UNCHANGED <<listVars, shapeVars, projVars, volVars>>

CallDeriv ==
    /\ ret' = VRet("deriv", <<>>, deriv(model), <<>>)
    /\ UNCHANGED <<listVars, shapeVars, projVars, volVars>>

CallDeriv2(v) ==
    /\ ret' = VRet("deriv2v", v, deriv2(model, v), <<>>)
    /\ UNCHANGED <<listVars, shapeVars, projVars, volVars>>

CallDeriv2Dense ==
    /\ ret' = VRet("deriv2", <<>>, <<>>, deriv2Dense(model))
    /\ UNCHANGED <<listVars, shapeVars, projVars, volVars>>

NextVol ==
    \/ CallVolume
    \/ CallDeriv
    \/ \E v \in Directions : CallDeriv2(v)
    \/ CallDeriv2Dense

SpecVol == InitVol /\ [][NextVol]_vars

\* ------------------------------------------------------- survey properties
HasDuplicate(value) ==
    \E i, j \in 1..Len(value) : i < j /\ value[i] = value[j]

\* 0-based position of object o in list l (o occurs in l)
PositionOf(l, o) == (CHOOSE i \in 1..Len(l) : l[i] = o) - 1

Positions(l, items) == [k \in 1..Len(items) |-> PositionOf(l, items[k])]

PresentQueries(l) ==
    {q \in Queries(Range(l)) : q.items # <<>>}

\* C1: an assignment of a list holding the same receiver (rxList) or the same
\* source (srcList) twice ends in an error raised by the assignment itself;
\* a list without duplicates is accepted and becomes the current list.
C1_DuplicatesRejectedAtAssignment ==
    /\ ret.op = "setSrcList" =>
          /\ HasDuplicate(ret.q.items) => ret.kind = "AssertionError"
          /\ ~HasDuplicate(ret.q.items) =>
                ret.kind = "ok" /\ srcList = ret.q.items /\ hasSourceOrder
    /\ ret.op = "setRxList" =>
          /\ HasDuplicate(ret.q.items) => ret.kind = "AssertionError"
          /\ ~HasDuplicate(ret.q.items) =>
                ret.kind = "ok" /\ rxList[ret.tgt] = ret.q.items
                    /\ hasRxOrder[ret.tgt]

C1_Witness ==
    /\ ret.op = "setRxList"
    /\ ret.kind = "AssertionError"
    /\ Len(ret.q.items) = 2
    /\ hasRxOrder[ret.tgt]
    /\ Len(rxList[ret.tgt]) = 2

\* C2: once a list has been assigned, the index lookup of the item at
\* (0-based) position i of the current list returns [i], and the lookup of a
\* list of present items returns their positions in query order; this holds
\* for the survey's srcList and for every source's rxList, and for the
\* result of the last lookup made.
C2_IndexMatchesPosition ==
    /\ hasSourceOrder =>
          \A q \in PresentQueries(srcList) :
              GetIndex(hasSourceOrder, sourceOrder, q)
                  = [kind |-> "ok", val |-> Positions(srcList, q.items)]
    /\ \A s \in Sources : hasRxOrder[s] =>
          \A q \in PresentQueries(rxList[s]) :
              GetIndex(hasRxOrder[s], rxOrder[s], q)
                  = [kind |-> "ok", val |-> Positions(rxList[s], q.items)]
    /\ (ret.op = "getSourceIndex" /\ ret.kind = "ok") =>
          ret.val = Positions(srcList, AsList(ret.q))
    /\ (ret.op = "getReceiverIndex" /\ ret.kind = "ok") =>
          ret.val = Positions(rxList[ret.tgt], AsList(ret.q))

C2_Witness ==
    /\ ret.op = "getSourceIndex"
    /\ ret.kind = "ok"
    /\ Len(srcList) = 2
    /\ ret.q.items = <<srcList[2], srcList[1]>>
    /\ ret.val = <<1, 0>>

\* the collection a lookup was made on
OwningList == IF ret.op = "getSourceIndex" THEN srcList ELSE rxList[ret.tgt]

\* C3: a lookup that names at least one item that is not in the owning
\* collection, or that has no uid, raises KeyError and returns no indices,
\* and leaves the collection and its identifier->index lookup unchanged.
C3_AllOrNothingKeyError ==
    [][(/\ ret'.op \in {"getSourceIndex", "getReceiverIndex"}
        /\ \E k \in 1..Len(AsList(ret'.q)) :
              \/ Uid(AsList(ret'.q)[k]) = None
              \/ AsList(ret'.q)[k] \notin Range(OwningList'))
       => /\ ret'.kind = "KeyError"
          /\ ret'.val = <<>>
          /\ UNCHANGED listVars]_vars

\* the data of a receiver, one element per datum
RxData(r) ==
    IF IsTimeRx(r)
    THEN {<<row, t>> : row \in 1..locs[r], t \in 1..times[r]}
    ELSE {<<row>> : row \in 1..locs[r]}

SrcData(s) ==
    UNION {{<<i, d>> : d \in RxData(rxList[s][i])} : i \in 1..Len(rxList[s])}

SurveyData ==
    UNION {{<<j, d>> : d \in SrcData(srcList[j])} : j \in 1..Len(srcList)}

\* C4: a receiver's nD is its number of location rows (times its number of
\* time samples for a BaseTimeRx), a source's nD counts the data of the
\* receivers of its rxList (0 for an empty list), and the survey's nD counts
\* the data of the sources of its srcList.
C4_nDCountsData ==
    /\ \A r \in Receivers : RxND(r) = Cardinality(RxData(r))
    /\ \A s \in Sources : SrcND(s) = Cardinality(SrcData(s))
    /\ \A s \in Sources : rxList[s] = <<>> => SrcND(s) = 0
    /\ SurveyND = Cardinality(SurveyData)
    /\ ret.op = "rx.nD" => ret.val = <<Cardinality(RxData(ret.tgt))>>
    /\ ret.op = "src.nD" => ret.val = <<Cardinality(SrcData(ret.tgt))>>
    /\ ret.op = "survey.nD" => ret.val = <<Cardinality(SurveyData)>>

C4_Witness ==
    /\ ret.op = "survey.nD"
    /\ Len(srcList) = 2
    /\ \E s \in Sources : rxList[s] = <<>>
    /\ \E s \in Sources : \E i \in 1..Len(rxList[s]) :
          IsTimeRx(rxList[s][i]) /\ times[rxList[s][i]] = 2 /\ locs[rxList[s][i]] = 2
    /\ ret.val[1] >= 4

\* C9: every call of the survey's dpred ends in an error, whatever the model,
\* the fields argument and the state of the survey, returns no data and
\* leaves the source list and its lookup index unchanged.
C9_DpredAlwaysRaises ==
    [][ret'.op = "dpred" =>
          /\ ret'.kind = "Exception"
          /\ ret'.val = <<>>
          /\ UNCHANGED listVars]_vars

C9_Witness ==
    /\ ret.op = "dpred"
    /\ ret.kind = "Exception"
    /\ ret.q.items[2] # None
    /\ hasSourceOrder
    /\ Len(srcList) = 2

\* ------------------------------------------------------- getP properties
\* C5: for every receiver and cache key, at most one matrix is built for the
\* key by calls made while storeProjections is true; a call that built one
\* while storing left it in the cache, and a call that built none returned
\* the matrix the cache holds for the key.
C5_AtMostOneConstructionPerKey ==
    /\ \A r \in Receivers : \A p \in constructed[r] : p[2] <= 1
    /\ ret.op = "getP" =>
          /\ DictHas(Ps[PsId(ret.tgt)], ret.key) =>
                DictGet(Ps[PsId(ret.tgt)], ret.key, None) = ret.mat
          /\ (ret.built /\ storeProjections[ret.tgt]) =>
                /\ DictHas(Ps[PsId(ret.tgt)], ret.key)
                /\ DictGet(constructed[ret.tgt], ret.key, 0) = 1
          /\ ~ret.built => DictHas(Ps[PsId(ret.tgt)], ret.key)

C5_Witness ==
    /\ ret.op = "getP"
    /\ IsTimeRx(ret.tgt)
    /\ ~ret.built
    /\ storeProjections[ret.tgt]
    /\ DictGet(constructed[ret.tgt], ret.key, 0) = 1

\* C10: the matrix a BaseRx returns from getP(M, g) is the interpolation
\* matrix of M for the receiver's own current locations and g.
C10_CacheCoherent ==
    (ret.op = "getP" /\ ~IsTimeRx(ret.tgt)) =>
        ret.mat = InterpolationMat(ret.key[1], locs[ret.tgt], ret.key[2])

\* ------------------------------------------------------- Volume properties
\* m with d added to component i
Step(m, i, d) == [j \in Cells |-> IF j = i THEN m[j] + d ELSE m[j]]

\* H @ v for a dense matrix held row by row
MatVec(H, v) == [i \in Cells |-> Inner(H[i], v)]

\* C6: deriv(m)[i] equals the central difference (f(m+e_i) - f(m-e_i))/2 of
\* the value f = __call__ (with f in halves: 4*deriv(m)[i] is the difference
\* of the two values).
C6_DerivMatchesFiniteDifference ==
    ret.op = "deriv" =>
        \A i \in Cells :
            CallHalves(Step(model, i, 1)) - CallHalves(Step(model, i, 0 - 1))
                = 4 * ret.val[i]

\* C7: deriv2(m, v) equals the dense deriv2(m) times v, and neither depends
\* on the model m.
C7_Deriv2MatchesDenseHessian ==
    /\ ret.op = "deriv2v" =>
          /\ ret.val = MatVec(deriv2Dense(model), ret.v)
          /\ \A m2 \in Models : deriv2(m2, ret.v) = ret.val
    /\ ret.op = "deriv2" =>
          /\ \A v \in Directions : MatVec(ret.H, v) = deriv2(model, v)
          /\ \A m2 \in Models : deriv2Dense(m2) = ret.H

C7_Witness ==
    /\ ret.op = "deriv2v"
    /\ vol[1] # vol[2]
    /\ ret.v[1] # ret.v[2]
    /\ \A i \in Cells : ret.val[i] # 0
    /\ Inner(vol, model) # Inner(vol, ret.v)

\* C8: at a model whose volume dot(vol, m) equals knownVolume the value is 0
\* and deriv(m) is the zero vector; the value is never negative.
C8_ZeroAtKnownVolume ==
    /\ estVol(model) = knownVolume =>
          /\ ret.op = "call" => ret.val = <<0>>
          /\ ret.op = "deriv" => \A i \in Cells : ret.val[i] = 0
    /\ ret.op = "call" => ret.val[1] >= 0

C8_Witness ==
    /\ ret.op = "deriv"
    /\ estVol(model) = knownVolume
    /\ knownVolume > 0
====
